---- MODULE Spec2Model ----
(***************************************************************************)
(* The session orchestration core of the interview coach: the session      *)
(* state (core_models.py), the input validator, the exception handler and  *)
(* the safe invocation wrapper (exception_handler.py), the content module  *)
(* contract (module_interface.py) and the orchestrator steps shown in      *)
(* examples.py.                                                            *)
(*                                                                         *)
(* Text is a sequence of one-character strings; a character outside ASCII  *)
(* is written by its code point ("U+5929").  None is Python's None.  A     *)
(* dict is a function whose DOMAIN is its set of keys.  The result of a    *)
(* call is a record with a field kind: "ModuleResponse", "None" (the call  *)
(* returned None), "dict" (some other object), "raised" (the call ended   *)
(* by raising exc with message) or "Stage" (a table lookup's answer).      *)
(***************************************************************************)
EXTENDS Integers, Sequences, FiniteSets, TLC

VARIABLES
    context,    \* the session state (InterviewContext)
    response,   \* what the call in progress returned or raised
    call,       \* the call in progress: entry point, arguments, what ran in it
    pc,         \* "idle" between calls, "responded" before the response is
                \* applied, "validated" before the verdict is read, "looked_up"
                \* before a table successor is read, "constructed" after a
                \* direct constructor call, "shown" while a response is
                \* shown without being applied, "detected" before a
                \* detector's answer is read, "fault" once a fault
                \* reached the orchestrator's caller
    now,        \* the clock: one tick per call whose response is to be applied
    turns       \* the calls applied so far, oldest first

vars == <<context, response, call, pc, now, turns>>

\* ------------------------------------------------------------------ bounds

\* Longest text the validator is enumerated on (ValidatorSpec).
MaxTextLen == 6
\* Longest message log built by add_message.
MaxLog == 4
\* Number of calls made on one session (the clock's last tick).
MaxTime == 3

\* ------------------------------------------------------------------ text

None == "None"

Whitespace == {" ", "\t", "\n"}

UpperCase == <<"A", "B", "C", "D", "E", "F", "G", "H", "I", "J", "K", "L", "M",
               "N", "O", "P", "Q", "R", "S", "T", "U", "V", "W", "X", "Y", "Z">>

LowerCase == <<"a", "b", "c", "d", "e", "f", "g", "h", "i", "j", "k", "l", "m",
               "n", "o", "p", "q", "r", "s", "t", "u", "v", "w", "x", "y", "z">>

\* str.lower() on one character.
lower_char(c) ==
    IF \E i \in 1..26 : UpperCase[i] = c
    THEN LowerCase[CHOOSE i \in 1..26 : UpperCase[i] = c]
    ELSE c

\* str.lower()
lower(s) == [i \in 1..Len(s) |-> lower_char(s[i])]

\* str.strip(): drop the leading and the trailing whitespace.
strip(s) ==
    LET keep == {i \in 1..Len(s) : s[i] \notin Whitespace}
    IN  IF keep = {} THEN <<>>
        ELSE LET lo == CHOOSE i \in keep : \A j \in keep : i <= j
                 hi == CHOOSE i \in keep : \A j \in keep : j <= i
             IN  SubSeq(s, lo, hi)

\* Python's `kw in s` on strings: kw is a contiguous part of s.
contains(kw, s) ==
    \E i \in 0..(Len(s) - Len(kw)) : \A j \in 1..Len(kw) : s[i + j] = kw[j]

\* any(kw in s for kw in keywords)
any_keyword(keywords, s) == \E kw \in keywords : contains(kw, s)

\* ----------------------------------------------------------- core_models

Stage == {"PROBLEM_CLARIFICATION", "THOUGHT_ARTICULATION", "COMPLEXITY_ANALYSIS",
          "PSEUDOCODE_DESIGN", "EDGE_CASE_CHECK", "FOLLOW_UP", "PATTERN_SUMMARY"}

ExceptionLevel == {"CRITICAL", "ERROR", "WARNING", "INFO"}

\* STAGE_TRANSITION_RULES with the follow-up stage made terminal.
STAGE_TRANSITION_RULES_follow_up_terminal ==
    [s \in Stage |->
        CASE s = "PROBLEM_CLARIFICATION" -> "THOUGHT_ARTICULATION"
          [] s = "THOUGHT_ARTICULATION"  -> "COMPLEXITY_ANALYSIS"
          [] s = "COMPLEXITY_ANALYSIS"   -> "PSEUDOCODE_DESIGN"
          [] s = "PSEUDOCODE_DESIGN"     -> "EDGE_CASE_CHECK"
          [] s = "EDGE_CASE_CHECK"       -> "FOLLOW_UP"
          [] s = "FOLLOW_UP"             -> None
          [] s = "PATTERN_SUMMARY"       -> None]

STAGE_TRANSITION_RULES ==
    [s \in Stage |->
        CASE s = "PROBLEM_CLARIFICATION" -> "THOUGHT_ARTICULATION"
          [] s = "THOUGHT_ARTICULATION"  -> "COMPLEXITY_ANALYSIS"
          [] s = "COMPLEXITY_ANALYSIS"   -> "PSEUDOCODE_DESIGN"
          [] s = "PSEUDOCODE_DESIGN"     -> "EDGE_CASE_CHECK"
          [] s = "EDGE_CASE_CHECK"       -> "FOLLOW_UP"
          [] s = "FOLLOW_UP"             -> "PATTERN_SUMMARY"
          [] s = "PATTERN_SUMMARY"       -> None]

\* SKIPPABLE_STAGES with the follow-up stage added.
SKIPPABLE_STAGES_with_follow_up == {"COMPLEXITY_ANALYSIS", "PATTERN_SUMMARY", "FOLLOW_UP"}

SKIPPABLE_STAGES == {"COMPLEXITY_ANALYSIS", "PATTERN_SUMMARY"}

\* CRITICAL_STAGES with the edge-case check left out.
CRITICAL_STAGES_without_edge_case == {"THOUGHT_ARTICULATION", "PSEUDOCODE_DESIGN"}

CRITICAL_STAGES == {"THOUGHT_ARTICULATION", "PSEUDOCODE_DESIGN", "EDGE_CASE_CHECK"}

\* An empty dict.
EmptyDict == [k \in {} |-> TRUE]

\* Python's truth value of an Optional[str]: None and "" are false.
falsy(s) == s = None \/ s = ""

Raised(exc, message) == [kind |-> "raised", exc |-> exc, message |-> message]

\* The dataclass constructor without __post_init__.
ModuleResponse_unchecked(success, assistant_message, next_stage, context_updates, error_message, exception_level) ==
    [kind |-> "ModuleResponse",
     success |-> success,
     assistant_message |-> assistant_message,
     next_stage |-> next_stage,
     context_updates |-> context_updates,
     metadata |-> EmptyDict,
     error_message |-> error_message,
     exception_level |-> exception_level]

\* The dataclass constructor with its __post_init__ check.
ModuleResponse(success, assistant_message, next_stage, context_updates, error_message, exception_level) ==
    IF success /\ falsy(assistant_message)
    THEN Raised("ValueError", "Success response must have assistant_message")
    ELSE IF ~success /\ falsy(error_message)
    THEN Raised("ValueError", "Failed response must have error_message")
    ELSE [kind |-> "ModuleResponse",
          success |-> success,
          assistant_message |-> assistant_message,
          next_stage |-> next_stage,
          context_updates |-> context_updates,
          metadata |-> EmptyDict,
          error_message |-> error_message,
          exception_level |-> exception_level]

create_success_response(message, next_stage, context_updates) ==
    ModuleResponse(TRUE, message, next_stage, context_updates, None, None)

\* create_error_response asking for the skip flag in its update instructions.
create_error_response_with_update(error_msg, level) ==
    ModuleResponse(FALSE,
                   "I encountered an issue. Let me try to help you another way.",
                   None, [skip_requested |-> TRUE], error_msg, level)

create_error_response(error_msg, level) ==
    ModuleResponse(FALSE,
                   "I encountered an issue. Let me try to help you another way.",
                   None, EmptyDict, error_msg, level)

Message(role, content, timestamp, stage) ==
    [role |-> role, content |-> content, timestamp |-> timestamp, stage |-> stage]

create_mock_context(problem_text, current_stage, t) ==
    [session_id |-> "test_session",
     problem_text |-> problem_text,
     current_stage |-> current_stage,
     stage_history |-> <<>>,
     stage_start_time |-> t,
     conversation_history |-> <<>>,
     current_user_input |-> <<>>,
     identified_pattern |-> None,
     complexity_expectation |-> None,
     consecutive_invalid_inputs |-> 0,
     skip_requested |-> FALSE,
     skipped_stages |-> <<>>,
     frustration_detected |-> FALSE,
     answer_requests |-> 0]

\* InterviewContext.add_message
add_message(ctx, role, content, t) ==
    [ctx EXCEPT !.conversation_history =
                    Append(@, Message(role, content, t, ctx.current_stage))]

\* transition_to recording the stage entered instead of the stage left.
transition_to_records_target(ctx, next_stage, t) ==
    [ctx EXCEPT !.stage_history = Append(@, next_stage),
                !.current_stage = next_stage,
                !.stage_start_time = t]

\* transition_to leaving the stage-entry timestamp as it was.
transition_to_keeps_timestamp(ctx, next_stage, t) ==
    [ctx EXCEPT !.stage_history = Append(@, ctx.current_stage),
                !.current_stage = next_stage]

\* InterviewContext.transition_to
transition_to(ctx, next_stage, t) ==
    [ctx EXCEPT !.stage_history = Append(@, ctx.current_stage),
                !.current_stage = next_stage,
                !.stage_start_time = t]

\* ------------------------------------------------- module_interface, examples

\* The texts a session's problem statement is drawn from.
ProblemTexts ==
    { <<"S", "a", "m", "p", "l", "e", " ", "p", "r", "o", "b", "l", "e", "m">>,
      <<"T", "w", "o", " ", "S", "u", "m">>,
      <<"a", " ", "s", "o", "r", "t", "e", "d", " ", "a", "r", "r", "a", "y">>,
      <<" ", " ">> }

\* What a module's validate_context does: return a bool or raise.
ValidateBehaviours ==
    {"true", "false", "raise_llm", "raise_state", "raise_state_empty", "raise_other"}

\* What a module's process does: return an envelope, return something else, or raise.
ProcessBehaviours ==
    {"success", "failure", "dict", "none",
     "raise_llm", "raise_state", "raise_state_empty", "raise_other"}

SimpleRecognizer ==
    [module_name |-> "ProblemTypeRecognizer", class |-> "SimpleRecognizer",
     validate |-> "code", process |-> "code"]

\* Any other implementation of ModuleInterface, by what its two methods do.
StubModule(v, p) ==
    [module_name |-> "Stub", class |-> "Stub", validate |-> v, process |-> p]

Modules ==
    {SimpleRecognizer} \cup
    {StubModule(v, p) : v \in ValidateBehaviours, p \in ProcessBehaviours}

Returned(value) == [kind |-> "bool", value |-> value]

\* The exception a behaviour raises.
behaviour_exception(b) ==
    CASE b = "raise_llm"         -> Raised("LLMCallException", "generation failed")
      [] b = "raise_state"       -> Raised("StateInconsistencyException", "missing field")
      [] b = "raise_state_empty" -> Raised("StateInconsistencyException", "")
      [] b = "raise_other"       -> Raised("KeyError", "'k'")

\* SimpleRecognizer.should_activate; a stub is active at every stage.
should_activate(module, ctx) ==
    IF module.class = "SimpleRecognizer"
    THEN ctx.current_stage = "PROBLEM_CLARIFICATION"
    ELSE TRUE

\* SimpleRecognizer.validate_context, ModuleInterface.validate_context.
validate_context(module, ctx) ==
    IF module.class = "SimpleRecognizer"
    THEN Returned(ctx.problem_text /= <<>> /\ strip(ctx.problem_text) /= <<>>)
    ELSE CASE module.validate = "true"  -> Returned(TRUE)
           [] module.validate = "false" -> Returned(FALSE)
           [] OTHER -> behaviour_exception(module.validate)

\* SimpleRecognizer.process
recognizer_process(ctx) ==
    LET problem == lower(ctx.problem_text)
        found ==
            IF \/ contains(<<"t", "w", "o", " ", "s", "u", "m">>, problem)
               \/ contains(<<"a", "d", "d", " ", "u", "p", " ", "t", "o">>, problem)
            THEN [pattern |-> "Hash Table / Two Pointer",
                  complexity |-> "O(n) time, O(n) space with hash table",
                  hint |-> "Think about: if you've seen a number before, how would you remember it?"]
            ELSE IF contains(<<"s", "o", "r", "t", "e", "d", " ", "a", "r", "r", "a", "y">>, problem)
            THEN [pattern |-> "Binary Search / Two Pointer",
                  complexity |-> "O(log n) for binary search",
                  hint |-> "The array is sorted - how can we take advantage of that?"]
            ELSE [pattern |-> "General Problem Solving",
                  complexity |-> "Start with brute force, then optimize",
                  hint |-> "Let's start by understanding what we need to do."]
    IN  create_success_response(
            "I notice this looks like a **" \o found.pattern \o "** problem. " \o found.hint,
            "THOUGHT_ARTICULATION",
            [identified_pattern |-> found.pattern,
             complexity_expectation |-> found.complexity])

\* module.process(context)
process(module, ctx) ==
    IF module.class = "SimpleRecognizer"
    THEN recognizer_process(ctx)
    ELSE CASE module.process = "success" ->
                create_success_response("Let's keep going.", None, EmptyDict)
           [] module.process = "failure" ->
                create_error_response("module could not answer", "WARNING")
           [] module.process = "dict" -> [kind |-> "dict"]
           [] module.process = "none" -> [kind |-> "None"]
           [] OTHER -> behaviour_exception(module.process)

\* -------------------------------------------------------- exception_handler

\* handle_llm_failure's default max_retries.
DEFAULT_MAX_RETRIES == 3

\* handle_llm_failure's default retry_count.
DEFAULT_RETRY_COUNT == 0

\* The number of consecutive invalid inputs that triggers help mode.
HELP_MODE_THRESHOLD == 3

\* The trimmed length below which the validator calls a text too short.
MIN_INPUT_LENGTH == 5

\* The number of latest log entries the repeated-input check reads.
RECENT_WINDOW == 3

\* _get_next_stage looking the stage up by a key the table does not hold.
get_next_stage_wrong_key(current) == None

\* ExceptionHandler._get_next_stage
get_next_stage(current) == STAGE_TRANSITION_RULES[current]

\* ExceptionHandler._get_stage_name_cn
get_stage_name_cn(stage) ==
    CASE stage = "PROBLEM_CLARIFICATION" -> "U+9898U+610FU+786EU+8BA4"
      [] stage = "THOUGHT_ARTICULATION"  -> "U+601DU+8DEFU+8BB2U+89E3"
      [] stage = "COMPLEXITY_ANALYSIS"   -> "U+590DU+6742U+5EA6U+5206U+6790"
      [] stage = "PSEUDOCODE_DESIGN"     -> "U+4EE3U+7801U+5B9EU+73B0"
      [] stage = "EDGE_CASE_CHECK"       -> "U+8FB9U+754CU+68C0U+67E5"
      [] stage = "FOLLOW_UP"             -> "U+6DF1U+5165U+8BA8U+8BBA"
      [] stage = "PATTERN_SUMMARY"       -> "U+603BU+7ED3"
      [] OTHER -> stage

\* ExceptionHandler._get_skip_reminder
get_skip_reminder(stage) ==
    CASE stage = "COMPLEXITY_ANALYSIS" -> "discussing complexity shows analytical maturity"
      [] stage = "PATTERN_SUMMARY"     -> "summarizing patterns helps you in future problems"
      [] OTHER -> "this step is valuable"

\* ExceptionHandler._get_fallback_template
get_fallback_template(stage) ==
    CASE stage = "PROBLEM_CLARIFICATION" ->
            "Let's make sure we understand the problem. What are the inputs and expected outputs?"
      [] stage = "THOUGHT_ARTICULATION" ->
            "Let's think about this step by step. What would be the simplest approach to solve this, even if not optimal?"
      [] stage = "COMPLEXITY_ANALYSIS" ->
            "Can you analyze the time and space complexity of your approach?"
      [] stage = "PSEUDOCODE_DESIGN" ->
            "Now let's write out the pseudocode or main logic structure."
      [] stage = "EDGE_CASE_CHECK" ->
            "What edge cases should we consider? Think about empty inputs, extreme values, etc."
      [] stage = "FOLLOW_UP" ->
            "Great work! Now let's think about: could we optimize this further?"
      [] stage = "PATTERN_SUMMARY" ->
            "Let's summarize: what pattern did we use here, and when would you use it again?"
      [] OTHER -> "Let's continue with the next step."

\* ExceptionHandler.handle_skip_request
handle_skip_request(ctx) ==
    LET current_stage == ctx.current_stage
    IN  IF current_stage \in CRITICAL_STAGES
        THEN create_success_response(
                 "I understand you want to move forward, but this stage is crucial for interview success. "
                 \o "In real interviews, skipping **" \o get_stage_name_cn(current_stage)
                 \o "** would be a red flag. "
                 \o "How about we spend just 2-3 minutes on this? It'll make a big difference.",
                 None,
                 [skip_requested |-> TRUE])
        ELSE IF current_stage \in SKIPPABLE_STAGES
        THEN create_success_response(
                 "Okay, we can move on for now. But remember, in a real interview, "
                 \o get_skip_reminder(current_stage) \o ". Let's continue to the next part.",
                 get_next_stage(current_stage),
                 [skipped_stages |-> Append(ctx.skipped_stages, current_stage)])
        ELSE create_success_response(
                 "Let's complete this part first before moving on.", None, EmptyDict)

\* The anomaly categories the validator returns.
Categories == {"empty", "too_short", "off_topic", "repeated"}

\* The templates with the too-short message as the default.
invalid_input_template_default_too_short(input_type) ==
    CASE input_type = "empty"     -> "I didn't catch that. Could you share your thoughts?"
      [] input_type = "too_short" -> "That's a bit brief! Could you elaborate a bit more?"
      [] input_type = "off_topic" -> "Hmm, that seems unrelated. Let me rephrase the question."
      [] input_type = "repeated"  ->
            "I notice you've said something similar before. Want to try a different angle?"
      [] OTHER -> "That's a bit brief! Could you elaborate a bit more?"

\* handle_invalid_input's templates.get(input_type, templates["empty"])
invalid_input_template(input_type) ==
    CASE input_type = "empty"     -> "I didn't catch that. Could you share your thoughts?"
      [] input_type = "too_short" -> "That's a bit brief! Could you elaborate a bit more?"
      [] input_type = "off_topic" -> "Hmm, that seems unrelated. Let me rephrase the question."
      [] input_type = "repeated"  ->
            "I notice you've said something similar before. Want to try a different angle?"
      [] OTHER -> "I didn't catch that. Could you share your thoughts?"

\* _trigger_help_mode carrying the incremented counter instead of 0.
trigger_help_mode_keeps_count(ctx) ==
    create_success_response(
        "I notice you might be stuck. No worries! Let me help you with a more detailed hint.",
        None,
        [consecutive_invalid_inputs |-> ctx.consecutive_invalid_inputs + 1,
         help_mode_triggered |-> TRUE])

\* _trigger_help_mode reporting the stuck user as a failure.
trigger_help_mode_as_failure(ctx) == create_error_response("user is stuck", "WARNING")

\* ExceptionHandler._trigger_help_mode
trigger_help_mode(ctx) ==
    create_success_response(
        "I notice you might be stuck. No worries! Let me help you with a more detailed hint.\n\n"
        \o "Try thinking about it this way: "
        \o "[U+5177U+4F53U+7684U+5F15U+5BFCU+95EEU+9898U+4F1AU+5728U+8FD9U+91CCU+751FU+6210]",
        None,
        [consecutive_invalid_inputs |-> 0, help_mode_triggered |-> TRUE])

\* handle_invalid_input with > for >= in the help-mode test.
handle_invalid_input_late_help(ctx, input_type) ==
    LET invalid_count == ctx.consecutive_invalid_inputs + 1
    IN  IF invalid_count > HELP_MODE_THRESHOLD
        THEN trigger_help_mode(ctx)
        ELSE create_success_response(
                 invalid_input_template(input_type),
                 None,
                 [consecutive_invalid_inputs |-> invalid_count])

\* ExceptionHandler.handle_invalid_input
handle_invalid_input(ctx, input_type) ==
    LET invalid_count == ctx.consecutive_invalid_inputs + 1
    IN  IF invalid_count >= HELP_MODE_THRESHOLD
        THEN trigger_help_mode(ctx)
        ELSE create_success_response(
                 invalid_input_template(input_type),
                 None,
                 [consecutive_invalid_inputs |-> invalid_count])

\* handle_frustration's pool of encouragements.
encouragements ==
    << "I can tell this is challenging, and that's completely normal! Even experienced engineers struggle with these problems at first.",
       "Let me help you break this down into smaller steps. We'll tackle it together.",
       "How about we approach this differently? Sometimes a fresh angle makes all the difference." >>

HINT_SUFFIX == "\n\nLet me give you a helpful hint to get started."

\* ExceptionHandler.handle_frustration; choice is random.choice's draw.
handle_frustration(ctx, choice) ==
    create_success_response(
        encouragements[choice] \o HINT_SUFFIX,
        None,
        [frustration_detected |-> TRUE, hint_level |-> "detailed"])

\* handle_llm_failure retrying once more: <= for < in the retry test.
handle_llm_failure_one_more_retry(error, ctx, retry_count, max_retries) ==
    IF retry_count <= max_retries
    THEN [result |-> [kind |-> "None"], slept |-> <<2 ^ retry_count>>]
    ELSE [result |-> create_success_response(
                         get_fallback_template(ctx.current_stage),
                         None,
                         [fallback_used |-> TRUE]),
          slept |-> <<>>]

\* ExceptionHandler.handle_llm_failure: the value returned and the waits slept.
handle_llm_failure(error, ctx, retry_count, max_retries) ==
    IF retry_count < max_retries
    THEN [result |-> [kind |-> "None"], slept |-> <<2 ^ retry_count>>]
    ELSE [result |-> create_success_response(
                         get_fallback_template(ctx.current_stage),
                         None,
                         [fallback_used |-> TRUE]),
          slept |-> <<>>]

\* InputValidator.validate's off_topic_keywords.
off_topic_keywords ==
    { <<"w", "e", "a", "t", "h", "e", "r">>, <<"U+5929", "U+6C14">>,
      <<"U+5403", "U+996D">>, <<"l", "u", "n", "c", "h">>,
      <<"U+6E38", "U+620F">>, <<"g", "a", "m", "e">> }

\* InputValidator.detect_skip_request's skip_keywords.
skip_keywords ==
    { <<"s", "k", "i", "p">>, <<"U+8DF3", "U+8FC7">>, <<"U+4E0B", "U+4E00", "U+4E2A">>,
      <<"n", "e", "x", "t">>, <<"p", "a", "s", "s">> }

\* InputValidator.detect_frustration's frustration_keywords.
frustration_keywords ==
    { <<"t", "o", "o", " ", "h", "a", "r", "d">>, <<"U+592A", "U+96BE">>,
      <<"g", "i", "v", "e", " ", "u", "p">>, <<"U+653E", "U+5F03">>,
      <<"d", "o", "n", "'", "t", " ", "k", "n", "o", "w">>, <<"U+4E0D", "U+4F1A">>,
      <<"c", "a", "n", "'", "t">>, <<"U+4E0D", "U+61C2">> }

\* The last n entries of a list: lst[-n:].
last_entries(lst, n) ==
    IF Len(lst) <= n THEN lst ELSE SubSeq(lst, Len(lst) - n + 1, Len(lst))

\* validate's recent_inputs: the user-authored contents among the last entries.
recent_inputs(ctx) ==
    LET recent == last_entries(ctx.conversation_history, RECENT_WINDOW)
    IN  {recent[i].content : i \in {j \in 1..Len(recent) : recent[j].role = "user"}}

Verdict(valid, category) == [valid |-> valid, category |-> category]

\* validate with the off-topic check ahead of the repeated-input check.
validate_off_topic_first(user_input, ctx) ==
    IF user_input = <<>> \/ strip(user_input) = <<>>
    THEN Verdict(FALSE, "empty")
    ELSE IF Len(strip(user_input)) < MIN_INPUT_LENGTH
    THEN Verdict(FALSE, "too_short")
    ELSE IF any_keyword(off_topic_keywords, lower(user_input))
    THEN Verdict(FALSE, "off_topic")
    ELSE IF /\ Len(ctx.conversation_history) >= RECENT_WINDOW
            /\ strip(user_input) \in recent_inputs(ctx)
    THEN Verdict(FALSE, "repeated")
    ELSE Verdict(TRUE, None)

\* InputValidator.validate
validate(user_input, ctx) ==
    IF user_input = <<>> \/ strip(user_input) = <<>>
    THEN Verdict(FALSE, "empty")
    ELSE IF Len(strip(user_input)) < MIN_INPUT_LENGTH
    THEN Verdict(FALSE, "too_short")
    ELSE IF /\ Len(ctx.conversation_history) >= RECENT_WINDOW
            /\ strip(user_input) \in recent_inputs(ctx)
    THEN Verdict(FALSE, "repeated")
    ELSE IF any_keyword(off_topic_keywords, lower(user_input))
    THEN Verdict(FALSE, "off_topic")
    ELSE Verdict(TRUE, None)

\* detect_skip_request without the lower-casing of the input.
detect_skip_request_case_sensitive(user_input) == any_keyword(skip_keywords, user_input)

\* InputValidator.detect_skip_request
detect_skip_request(user_input) == any_keyword(skip_keywords, lower(user_input))

\* detect_frustration that finds no keyword.
detect_frustration_never(user_input) == FALSE

\* InputValidator.detect_frustration
detect_frustration(user_input) == any_keyword(frustration_keywords, lower(user_input))

\* InputValidator.detect_answer_request's answer_keywords.
answer_keywords ==
    { <<"g", "i", "v", "e", " ", "m", "e", " ", "t", "h", "e", " ", "a", "n", "s", "w", "e", "r">>,
      <<"t", "e", "l", "l", " ", "m", "e", " ", "t", "h", "e", " ", "a", "n", "s", "w", "e", "r">>,
      <<"U+76F4", "U+63A5", "U+544A", "U+8BC9", "U+6211">>,
      <<"w", "h", "a", "t", "'", "s", " ", "t", "h", "e", " ", "s", "o", "l", "u", "t", "i", "o", "n">>,
      <<"U+7B54", "U+6848", "U+662F", "U+4EC0", "U+4E48">>,
      <<"j", "u", "s", "t", " ", "s", "h", "o", "w", " ", "m", "e">> }

\* InputValidator.detect_answer_request
detect_answer_request(user_input) == any_keyword(answer_keywords, lower(user_input))

\* The session after a call that appends the current stage to the session's
\* own skipped_stages list.
context_after_call_appending(ctx) ==
    [ctx EXCEPT !.skipped_stages = Append(@, ctx.current_stage)]

\* The session as a call of the validator, a detector, a handler or the
\* wrapper leaves it: none of them assigns an attribute of context or calls a
\* method that changes one (skipped is a new list,
\* context.skipped_stages + [current_stage]).
context_after_call(ctx) == ctx

\* The try block of safe_module_call without the precondition check.
guarded_body_unchecked(module, ctx) ==
    LET produced == process(module, ctx)
    IN  IF produced.kind = "raised"
        THEN [out |-> produced, process_calls |-> 1]
        ELSE IF produced.kind /= "ModuleResponse"
        THEN [out |-> Raised("ValueError",
                             module.module_name \o " returned invalid response type"),
              process_calls |-> 1]
        ELSE [out |-> produced, process_calls |-> 1]

\* The try block of safe_module_call: what it returns or raises, and how often
\* it invoked process.
guarded_body(module, ctx) ==
    LET checked == validate_context(module, ctx)
    IN  IF checked.kind = "raised"
        THEN [out |-> checked, process_calls |-> 0]
        ELSE IF ~checked.value
        THEN [out |-> Raised("StateInconsistencyException",
                             "Context validation failed for " \o module.module_name),
              process_calls |-> 0]
        ELSE LET produced == process(module, ctx)
             IN  IF produced.kind = "raised"
                 THEN [out |-> produced, process_calls |-> 1]
                 ELSE IF produced.kind /= "ModuleResponse"
                 THEN [out |-> Raised("ValueError",
                                      module.module_name \o " returned invalid response type"),
                       process_calls |-> 1]
                 ELSE [out |-> produced, process_calls |-> 1]

\* The except clauses of safe_module_call, for the exception e the try block raised.
except_clauses(e, ctx) ==
    IF e.exc = "LLMCallException"
    THEN handle_llm_failure(e, ctx, DEFAULT_RETRY_COUNT, DEFAULT_MAX_RETRIES)
    ELSE IF e.exc = "StateInconsistencyException"
    THEN [result |-> create_error_response(e.message, "ERROR"), slept |-> <<>>]
    ELSE [result |-> create_error_response("Unexpected error: " \o e.message, "CRITICAL"),
          slept |-> <<>>]

\* safe_module_call: the value returned (or the exception that escaped), the
\* number of process invocations and the waits slept.
safe_module_call(module, ctx) ==
    LET body == guarded_body(module, ctx)
    IN  IF body.out.kind /= "raised"
        THEN [result |-> body.out, process_calls |-> body.process_calls, slept |-> <<>>]
        ELSE LET handled == except_clauses(body.out, ctx)
             IN  [result |-> handled.result,
                  process_calls |-> body.process_calls,
                  slept |-> handled.slept]

\* ------------------------------------------------------------------ inputs

\* The turn texts submitted to a session.
TurnTexts ==
    { <<>>,
      <<" ", " ", " ">>,
      <<"o", "k">>,
      <<"s", "k", "i", "p">>,
      <<"C", "a", "n", " ", "w", "e", " ", "s", "k", "i", "p", " ", "t", "h", "i", "s", " ", "p", "a", "r", "t", "?">>,
      <<"t", "h", "i", "s", " ", "i", "s", " ", "t", "o", "o", " ", "h", "a", "r", "d", ",", " ", "I", " ", "g", "i", "v", "e", " ", "u", "p">>,
      <<"T", "o", "o", " ", "h", "a", "r", "d", ",", " ", "N", "E", "X", "T">>,
      <<"L", "e", "t", " ", "m", "e", " ", "t", "h", "i", "n", "k", " ", "a", "b", "o", "u", "t", " ", "u", "s", "i", "n", "g", " ", "a", " ", "h", "a", "s", "h", " ", "t", "a", "b", "l", "e">>,
      <<"s", "k", "i", "p", " ", "t", "h", "e", " ", "l", "u", "n", "c", "h">> }

Roles == {"user", "assistant"}

\* A message log in which the user's latest message told of frustration.
FrustratedLog ==
    << Message("assistant", <<"W", "r", "i", "t", "e", " ", "t", "h", "e", " ", "l", "o", "o", "p", ".">>, 0, "PSEUDOCODE_DESIGN"),
       Message("user", <<"t", "h", "i", "s", " ", "i", "s", " ", "t", "o", "o", " ", "h", "a", "r", "d", ",", " ", "I", " ", "g", "i", "v", "e", " ", "u", "p">>, 0, "PSEUDOCODE_DESIGN"),
       Message("assistant", <<"T", "a", "k", "e", " ", "y", "o", "u", "r", " ", "t", "i", "m", "e", ".">>, 0, "PSEUDOCODE_DESIGN") >>

\* A message log a session may be created with: the user's latest message is
\* one of the turn texts.
SampleLog ==
    << Message("assistant", <<"W", "h", "a", "t", " ", "i", "s", " ", "y", "o", "u", "r", " ", "i", "d", "e", "a", "?">>, 0, "THOUGHT_ARTICULATION"),
       Message("user", <<"L", "e", "t", " ", "m", "e", " ", "t", "h", "i", "n", "k", " ", "a", "b", "o", "u", "t", " ", "u", "s", "i", "n", "g", " ", "a", " ", "h", "a", "s", "h", " ", "t", "a", "b", "l", "e">>, 0, "THOUGHT_ARTICULATION"),
       Message("assistant", <<"G", "o", " ", "o", "n", ".">>, 0, "THOUGHT_ARTICULATION") >>

\* The input_type arguments handle_invalid_input is called with.
InputTypes == Categories \cup {"unknown"}

\* The retry_count and max_retries arguments handle_llm_failure is called with.
RetryCounts == 0..(DEFAULT_MAX_RETRIES + 1)

NoModule == [module_name |-> "", class |-> "none", validate |-> "", process |-> ""]

NoResponse == [kind |-> "absent"]

\* What the call in progress is: its entry point and arguments, the components
\* that ran in it, the validator's verdict, and the wrapper's process
\* invocations and waits.
NoCall ==
    [op |-> "none", ran |-> {}, text |-> <<>>, input_type |-> None,
     module |-> NoModule, retry_count |-> 0, max_retries |-> 0,
     valid |-> TRUE, category |-> None, process_calls |-> 0, slept |-> <<>>]

\* The sessions a run starts from: the mock context at any stage, at the first
\* stage with any problem text, a session created with a message log, and a
\* session picked up after its first invalid input.
InitialContexts ==
    {create_mock_context(<<"S", "a", "m", "p", "l", "e", " ", "p", "r", "o", "b", "l", "e", "m">>, stage, 0) :
        stage \in Stage}
    \cup {create_mock_context(problem_text, "PROBLEM_CLARIFICATION", 0) :
            problem_text \in ProblemTexts}
    \cup {[create_mock_context(<<"S", "a", "m", "p", "l", "e", " ", "p", "r", "o", "b", "l", "e", "m">>, "THOUGHT_ARTICULATION", 0)
            EXCEPT !.conversation_history = SampleLog]}
    \cup {[create_mock_context(<<"S", "a", "m", "p", "l", "e", " ", "p", "r", "o", "b", "l", "e", "m">>, "PSEUDOCODE_DESIGN", 0)
            EXCEPT !.conversation_history = FrustratedLog]}
    \cup {[create_mock_context(<<"S", "a", "m", "p", "l", "e", " ", "p", "r", "o", "b", "l", "e", "m">>, "THOUGHT_ARTICULATION", 0)
            EXCEPT !.consecutive_invalid_inputs = 1]}

\* ------------------------------------------------------------------ actions

Init ==
    /\ context \in InitialContexts
    /\ response = NoResponse
    /\ call = NoCall
    /\ pc = "idle"
    /\ now = 0
    /\ turns = <<>>

\* A call is made on the session between turns; the clock ticks.
Calling ==
    /\ pc = "idle"
    /\ now < MaxTime
    /\ now' = now + 1
    /\ pc' = "responded"
    /\ context' = context_after_call(context)
    /\ UNCHANGED turns

CallHandleSkipRequest ==
    /\ Calling
    /\ response' = handle_skip_request(context)
    /\ call' = [NoCall EXCEPT !.op = "handle_skip_request",
                              !.ran = {"handle_skip_request"}]

CallHandleInvalidInput ==
    /\ Calling
    /\ \E input_type \in InputTypes :
           /\ response' = handle_invalid_input(context, input_type)
           /\ call' = [NoCall EXCEPT !.op = "handle_invalid_input",
                                     !.ran = {"handle_invalid_input"},
                                     !.input_type = input_type]

CallHandleFrustration ==
    /\ Calling
    /\ \E choice \in DOMAIN encouragements :
           response' = handle_frustration(context, choice)
    /\ call' = [NoCall EXCEPT !.op = "handle_frustration",
                              !.ran = {"handle_frustration"}]

CallHandleLlmFailure ==
    /\ Calling
    /\ \E retry_count \in RetryCounts, max_retries \in RetryCounts :
           LET done == handle_llm_failure(Raised("LLMCallException", "generation failed"),
                                          context, retry_count, max_retries)
           IN  /\ response' = done.result
               /\ call' = [NoCall EXCEPT !.op = "handle_llm_failure",
                                         !.ran = {"handle_llm_failure"},
                                         !.retry_count = retry_count,
                                         !.max_retries = max_retries,
                                         !.slept = done.slept]

\* example_for_developer_a: the active module is called through the wrapper.
CallSafeModule ==
    /\ Calling
    /\ \E module \in Modules :
           /\ should_activate(module, context)
           /\ LET done == safe_module_call(module, context)
              IN  /\ response' = done.result
                  /\ call' = [NoCall EXCEPT !.op = "safe_module_call",
                                            !.ran = {"safe_module_call"},
                                            !.module = module,
                                            !.process_calls = done.process_calls,
                                            !.slept = done.slept]

\* One turn: validity first, then skip intent, then frustration, then the
\* active content module.
SubmitTurn ==
    /\ Calling
    /\ \E text \in TurnTexts :
           LET verdict == validate(text, context)
               turn == [NoCall EXCEPT !.op = "submit_turn", !.text = text,
                                      !.valid = verdict.valid,
                                      !.category = verdict.category]
           IN  IF ~verdict.valid
               THEN /\ response' = handle_invalid_input(context, verdict.category)
                    /\ call' = [turn EXCEPT !.ran = {"validate", "handle_invalid_input"},
                                            !.input_type = verdict.category]
               ELSE IF detect_skip_request(text)
               THEN /\ response' = handle_skip_request(context)
                    /\ call' = [turn EXCEPT !.ran = {"validate", "detect_skip_request",
                                                     "handle_skip_request"}]
               ELSE IF detect_frustration(text)
               THEN \E choice \in DOMAIN encouragements :
                        /\ response' = handle_frustration(context, choice)
                        /\ call' = [turn EXCEPT !.ran = {"validate", "detect_skip_request",
                                                         "detect_frustration",
                                                         "handle_frustration"}]
               ELSE \E module \in Modules :
                        /\ should_activate(module, context)
                        /\ LET done == safe_module_call(module, context)
                           IN  /\ response' = done.result
                               /\ call' = [turn EXCEPT
                                              !.ran = {"validate", "detect_skip_request",
                                                       "detect_frustration",
                                                       "safe_module_call"},
                                              !.module = module,
                                              !.process_calls = done.process_calls,
                                              !.slept = done.slept]

\* setattr(context, key, value) for every item of the update instructions.
apply_updates(ctx, updates) ==
    [key \in DOMAIN ctx \cup DOMAIN updates |->
        IF key \in DOMAIN updates THEN updates[key] ELSE ctx[key]]

\* example_for_developer_a, step 4: the orchestrator applies a response.
apply_response(ctx, resp, t) ==
    IF resp.success
    THEN LET updated == apply_updates(ctx, resp.context_updates)
         IN  IF resp.next_stage /= None
             THEN transition_to(updated, resp.next_stage, t)
             ELSE updated
    ELSE ctx

\* The handler that answered the call in progress.
answered_by ==
    CHOOSE h \in {"handle_skip_request", "handle_invalid_input", "handle_frustration",
                  "handle_llm_failure", "safe_module_call"} : h \in call.ran

\* What turns keeps of an applied call: the handler that answered, the stage
\* and the counter it was called at, and whether it answered in help mode.
TurnRecord ==
    [handler |-> answered_by,
     stage |-> context.current_stage,
     counter |-> context.consecutive_invalid_inputs,
     help |-> "help_mode_triggered" \in DOMAIN response.context_updates]

\* The orchestrator applies the response of the call; the turn is over.
Apply ==
    /\ pc = "responded"
    /\ response.kind = "ModuleResponse"
    /\ context' = apply_response(context, response, now)
    /\ turns' = Append(turns, TurnRecord)
    /\ pc' = "idle"
    /\ response' = NoResponse
    /\ call' = NoCall
    /\ UNCHANGED now

\* The call returned no envelope (None: response.success raises AttributeError)
\* or raised: the fault reaches the orchestrator's caller.
Fault ==
    /\ pc = "responded"
    /\ response.kind /= "ModuleResponse"
    /\ pc' = "fault"
    /\ UNCHANGED <<context, response, call, now, turns>>

\* The Stage Machine is asked for the successor of a stage; the session is
\* only read and no turn is made.
CallGetNextStage ==
    /\ pc = "idle"
    /\ \E current \in Stage :
           response' = [kind |-> "Stage", current |-> current,
                        value |-> get_next_stage(current)]
    /\ call' = [NoCall EXCEPT !.op = "get_next_stage", !.ran = {"get_next_stage"}]
    /\ pc' = "looked_up"
    /\ context' = context_after_call(context)
    /\ UNCHANGED <<now, turns>>

\* The texts a constructor call passes as assistant_message and error_message.
ConstructorTexts == {None, "", "Go on."}

\* A ModuleResponse is constructed directly; the session is only read and no
\* turn is made.
CallModuleResponse ==
    /\ pc = "idle"
    /\ \E success \in BOOLEAN, assistant_message \in ConstructorTexts, error_message \in ConstructorTexts :
           /\ response' = ModuleResponse(success, assistant_message, None, EmptyDict,
                                         error_message, IF success THEN None ELSE "ERROR")
           /\ call' = [args |-> [success |-> success,
                                 assistant_message |-> assistant_message,
                                 error_message |-> error_message]]
                       @@ [NoCall EXCEPT !.op = "ModuleResponse", !.ran = {"ModuleResponse"}]
    /\ pc' = "constructed"
    /\ UNCHANGED <<context, now, turns>>

\* example_safe_module_call: the recognizer is called through the wrapper
\* without asking should_activate, and the response is shown, not applied.
example_safe_module_call ==
    /\ pc = "idle"
    /\ LET done == safe_module_call(SimpleRecognizer, context)
       IN  /\ response' = done.result
           /\ call' = [NoCall EXCEPT !.op = "example_safe_module_call",
                                     !.ran = {"safe_module_call"},
                                     !.module = SimpleRecognizer,
                                     !.process_calls = done.process_calls,
                                     !.slept = done.slept]
    /\ pc' = "shown"
    /\ context' = context_after_call(context)
    /\ UNCHANGED <<now, turns>>

\* The texts the answer-request detector is called on.
AnswerTexts ==
    { <<"J", "u", "s", "t", " ", "s", "h", "o", "w", " ", "m", "e", " ", "t", "h", "e", " ", "c", "o", "d", "e">>,
      <<"L", "e", "t", " ", "m", "e", " ", "t", "h", "i", "n", "k", " ", "a", "b", "o", "u", "t", " ", "u", "s", "i", "n", "g", " ", "a", " ", "h", "a", "s", "h", " ", "t", "a", "b", "l", "e">> }

\* The answer-request detector is called on a text; it is not part of the
\* turn pipeline.
CallDetectAnswerRequest ==
    /\ pc = "idle"
    /\ \E text \in AnswerTexts :
           call' = [detected |-> detect_answer_request(text)]
                   @@ [NoCall EXCEPT !.op = "detect_answer_request",
                                     !.ran = {"detect_answer_request"},
                                     !.text = text]
    /\ pc' = "detected"
    /\ context' = context_after_call(context)
    /\ UNCHANGED <<response, now, turns>>

\* The caller has read the successor, the constructed response or the
\* constructor's fault or the detector's answer, or has shown the response.
LookupReturn ==
    /\ pc \in {"looked_up", "constructed", "shown", "detected"}
    /\ pc' = "idle"
    /\ response' = NoResponse
    /\ call' = NoCall
    /\ UNCHANGED <<context, now, turns>>

Next ==
    \/ CallGetNextStage
    \/ CallModuleResponse
    \/ example_safe_module_call
    \/ CallDetectAnswerRequest
    \/ LookupReturn
    \/ CallHandleSkipRequest
    \/ CallHandleInvalidInput
    \/ CallHandleFrustration
    \/ CallHandleLlmFailure
    \/ CallSafeModule
    \/ SubmitTurn
    \/ Apply
    \/ Fault

Spec == Init /\ [][Next]_vars

\* ------------------------------------------------------------ ValidatorSpec
\* The validator as a pure function of (text, session): the texts are all the
\* sequences over a small alphabet, the logs are built by add_message.

\* A blank, and the two characters of the off-topic keyword U+5929 U+6C14.
ValidatorAlphabet == {" ", "U+5929", "U+6C14"}

ValidatorTexts ==
    UNION {[1..n -> ValidatorAlphabet] : n \in 0..MaxTextLen}
    \cup TurnTexts
    \cup { <<"G", "A", "M", "E", " ", "o", "v", "e", "r">> }

\* The messages logged: a short off-topic user message, a long off-topic user
\* message, and an assistant message that is a valid text.
LoggedMessages ==
    { [role |-> "user", content |-> <<"U+5929", "U+6C14">>],
      [role |-> "user", content |-> <<"U+5929", "U+6C14", "U+5929", "U+5929", "U+5929">>],
      [role |-> "assistant", content |-> <<"U+5929", "U+5929", "U+5929", "U+5929", "U+5929">>] }

\* The orchestrator logs a message.
AddMessage ==
    /\ pc = "idle"
    /\ Len(context.conversation_history) < MaxLog
    /\ \E m \in LoggedMessages :
           context' = add_message(context, m.role, m.content, now)
    /\ UNCHANGED <<response, call, pc, now, turns>>

\* The validator is called on a text; the session is only read.
CallValidate ==
    /\ pc = "idle"
    /\ \E text \in ValidatorTexts :
           LET verdict == validate(text, context)
           IN  call' = [NoCall EXCEPT !.op = "validate", !.ran = {"validate"},
                                      !.text = text,
                                      !.valid = verdict.valid,
                                      !.category = verdict.category]
    /\ pc' = "validated"
    /\ context' = context_after_call(context)
    /\ UNCHANGED <<response, now, turns>>

\* The caller has read the verdict.
ValidateReturn ==
    /\ pc = "validated"
    /\ pc' = "idle"
    /\ call' = NoCall
    /\ UNCHANGED <<context, response, now, turns>>

\* A message log whose user message was logged as typed, with a trailing blank.
PaddedLog ==
    << Message("assistant", <<"U+5929", "U+5929", "U+5929">>, 0, "PROBLEM_CLARIFICATION"),
       Message("user", <<"U+5929", "U+5929", "U+5929", "U+5929", "U+5929", " ">>, 0, "PROBLEM_CLARIFICATION"),
       Message("assistant", <<"U+5929", "U+5929", "U+5929">>, 0, "PROBLEM_CLARIFICATION") >>

\* The sessions the validator is called on to begin with: a new one, and one
\* with a message log.
ValidatorContexts ==
    { create_mock_context(<<"S", "a", "m", "p", "l", "e", " ", "p", "r", "o", "b", "l", "e", "m">>, "PROBLEM_CLARIFICATION", 0),
      [create_mock_context(<<"S", "a", "m", "p", "l", "e", " ", "p", "r", "o", "b", "l", "e", "m">>, "PROBLEM_CLARIFICATION", 0)
          EXCEPT !.conversation_history = PaddedLog] }

ValidatorInit ==
    /\ context \in ValidatorContexts
    /\ response = NoResponse
    /\ call = NoCall
    /\ pc = "idle"
    /\ now = 0
    /\ turns = <<>>

ValidatorNext ==
    \/ AddMessage
    \/ CallValidate
    \/ ValidateReturn

ValidatorSpec == ValidatorInit /\ [][ValidatorNext]_vars

\* ------------------------------------------------------------------ claims

\* The call in progress was answered by the skip handler, directly or as the
\* skip route of a turn.
SkipAnswered == pc = "responded" /\ "handle_skip_request" \in call.ran

\* The call in progress went through the wrapper, directly or as the module
\* route of a turn.
WrapperAnswered == pc = "responded" /\ "safe_module_call" \in call.ran

\* The last applied call.
LastTurn == turns[Len(turns)]

\* The critical stages, as the claim names them.
CriticalNamed == {"THOUGHT_ARTICULATION", "PSEUDOCODE_DESIGN", "EDGE_CASE_CHECK"}

\* C1: a skip request at a critical stage (articulation, pseudocode design,
\* edge-case check) is answered with a success response that has no next stage
\* and sets skip_requested, and neither the call nor applying its response
\* changes the current stage or skipped_stages.
C1_CriticalSkipRefused ==
    /\ [](SkipAnswered /\ context.current_stage \in CriticalNamed =>
            /\ response.kind = "ModuleResponse"
            /\ response.success
            /\ response.next_stage = None
            /\ "skip_requested" \in DOMAIN response.context_updates
            /\ response.context_updates.skip_requested = TRUE)
    /\ [][(SkipAnswered \/ SkipAnswered') /\ context.current_stage \in CriticalNamed =>
            /\ context'.current_stage = context.current_stage
            /\ context'.skipped_stages = context.skipped_stages]_vars

\* C1 witness: a second skip request in a row is pending at a critical stage,
\* the first one applied.
C1_Witness ==
    /\ SkipAnswered
    /\ context.current_stage = "EDGE_CASE_CHECK"
    /\ turns /= <<>>
    /\ LastTurn.handler = "handle_skip_request"
    /\ LastTurn.stage = "EDGE_CASE_CHECK"
    /\ context.skip_requested

\* C2 as stated: applying the skip response at a skippable stage s leaves the
\* session at the table successor of s with s added to skipped_stages.
C2_Original ==
    [][SkipAnswered /\ context.current_stage \in {"COMPLEXITY_ANALYSIS", "PATTERN_SUMMARY"}
          /\ pc' = "idle" =>
            /\ context'.current_stage = STAGE_TRANSITION_RULES[context.current_stage]
            /\ context'.skipped_stages = Append(context.skipped_stages, context.current_stage)]_vars

\* The skippable stages, as the claim names them, and the successor of each.
SkippableNamed == {"COMPLEXITY_ANALYSIS", "PATTERN_SUMMARY"}

SuccessorNamed(s) == IF s = "COMPLEXITY_ANALYSIS" THEN "PSEUDOCODE_DESIGN" ELSE None

\* C2 amended: a skip request at a skippable stage s is answered with the table
\* successor of s as next stage (pseudocode design for complexity analysis, none
\* for pattern summary) and skipped_stages plus s as update; applied, the
\* session is at that successor when there is one and still at s when there is
\* none, and skipped_stages is the old skipped_stages plus s.
C2_SkippableSkipAdvances ==
    /\ [](SkipAnswered /\ context.current_stage \in SkippableNamed =>
            /\ response.kind = "ModuleResponse"
            /\ response.success
            /\ response.next_stage = SuccessorNamed(context.current_stage)
            /\ DOMAIN response.context_updates = {"skipped_stages"}
            /\ response.context_updates.skipped_stages =
                   context.skipped_stages \o <<context.current_stage>>)
    /\ [][SkipAnswered /\ context.current_stage \in SkippableNamed /\ pc' = "idle" =>
            /\ context'.current_stage =
                   IF SuccessorNamed(context.current_stage) = None
                   THEN context.current_stage
                   ELSE SuccessorNamed(context.current_stage)
            /\ context'.skipped_stages =
                   context.skipped_stages \o <<context.current_stage>>]_vars

\* C2 witness: a skip request at complexity analysis has been applied.
C2_Witness ==
    /\ pc = "idle"
    /\ turns /= <<>>
    /\ LastTurn.handler = "handle_skip_request"
    /\ LastTurn.stage = "COMPLEXITY_ANALYSIS"
    /\ context.current_stage = "PSEUDOCODE_DESIGN"
    /\ context.skipped_stages = <<"COMPLEXITY_ANALYSIS">>

\* The module of the call in progress passes its precondition and its process
\* raises the generation failure every time.
PersistentGenerationFailure ==
    /\ WrapperAnswered
    /\ call.module.class = "Stub"
    /\ call.module.validate = "true"
    /\ call.module.process = "raise_llm"

\* C3: with max_retries = 3 a persistently failing generation call is attempted
\* 4 times, with waits of 1, 2 and 4 in that order, and the turn ends with the
\* current stage's fallback template and fallback_used set.
C3_RetriesThenFallback ==
    PersistentGenerationFailure =>
        /\ call.process_calls = DEFAULT_MAX_RETRIES + 1
        /\ call.slept = <<1, 2, 4>>
        /\ response.kind = "ModuleResponse"
        /\ response.success
        /\ response.assistant_message = get_fallback_template(context.current_stage)
        /\ "fallback_used" \in DOMAIN response.context_updates
        /\ response.context_updates.fallback_used = TRUE

\* C4: whatever the module does (precondition false, process raises a
\* generation failure or another fault, process returns something that is no
\* envelope, process returns an envelope), the wrapper returns a ModuleResponse.
C4_WrapperReturnsEnvelope ==
    /\ WrapperAnswered
    /\ call.module.class = "Stub"
    /\ call.module.validate \in {"true", "false"}
    /\ call.module.process \in {"success", "failure", "dict", "none", "raise_llm", "raise_other"}
    => response.kind = "ModuleResponse"

\* C5: whatever fault validate_context or process raises, the wrapper returns
\* instead of raising, and an unexpected fault becomes a failure response of
\* severity critical.
C5_WrapperNeverRaises ==
    WrapperAnswered =>
        /\ response.kind /= "raised"
        /\ (/\ call.module.class = "Stub"
            /\ \/ call.module.validate = "raise_other"
               \/ call.module.validate = "true" /\ call.module.process = "raise_other"
            => /\ response.kind = "ModuleResponse"
               /\ ~response.success
               /\ response.exception_level = "CRITICAL")

\* The precondition of the module of the call in progress returned false.
PreconditionFalse ==
    /\ WrapperAnswered
    /\ \/ call.module.class = "Stub" /\ call.module.validate = "false"
       \/ /\ call.module.class = "SimpleRecognizer"
          /\ \A i \in 1..Len(context.problem_text) : context.problem_text[i] \in Whitespace

\* C6: when validate_context returns false, process is not invoked in that
\* wrapper call and the wrapper returns a failure response with a non-empty
\* error message and severity error.
C6_PreconditionFalseNoProcess ==
    PreconditionFalse =>
        /\ call.process_calls = 0
        /\ response.kind = "ModuleResponse"
        /\ ~response.success
        /\ response.error_message /= None
        /\ response.error_message /= ""
        /\ response.exception_level = "ERROR"

\* C6 witness: the recognizer is called on a session whose problem text is blank.
C6_Witness ==
    /\ PreconditionFalse
    /\ call.module.class = "SimpleRecognizer"
    /\ response.kind = "ModuleResponse"

\* C7: when process returns a value that is no envelope, the wrapper returns a
\* failure response of the state-inconsistency class, with severity error as
\* for a violated precondition, and not the value itself.
C7_MalformedIsStateInconsistency ==
    /\ WrapperAnswered
    /\ call.module.class = "Stub"
    /\ call.module.validate = "true"
    /\ call.module.process \in {"dict", "none"}
    => /\ response.kind = "ModuleResponse"
       /\ ~response.success
       /\ response.exception_level = "ERROR"

\* The counter after the i-th applied call: the counter the next call was made
\* at, or the session's counter when it is the last one.
CounterAfter(i) ==
    IF i < Len(turns) THEN turns[i + 1].counter ELSE context.consecutive_invalid_inputs

InvalidTurn(i) == turns[i].handler = "handle_invalid_input"

\* C8: from a counter of 0, with each response applied, the first and the
\* second invalid input in a row are not answered in help mode and leave the
\* counter at 1 and 2, and the third is answered in help mode and leaves it at 0.
C8_ThirdInvalidTriggersHelp ==
    \A i \in 1..Len(turns) :
        InvalidTurn(i) /\ turns[i].counter = 0 =>
            /\ ~turns[i].help
            /\ CounterAfter(i) = 1
            /\ (i + 1 <= Len(turns) /\ InvalidTurn(i + 1) =>
                    /\ ~turns[i + 1].help
                    /\ CounterAfter(i + 1) = 2
                    /\ (i + 2 <= Len(turns) /\ InvalidTurn(i + 2) =>
                            /\ turns[i + 2].help
                            /\ CounterAfter(i + 2) = 0))

\* C8 witness: three invalid inputs in a row have been applied, the third in
\* help mode.
C8_Witness ==
    /\ pc = "idle"
    /\ Len(turns) = 3
    /\ \A i \in 1..3 : InvalidTurn(i)
    /\ turns[1].counter = 0
    /\ turns[3].counter = 2
    /\ turns[3].help
    /\ context.consecutive_invalid_inputs = 0
    /\ "help_mode_triggered" \in DOMAIN context

\* C9: the turn text "skip" at the complexity analysis stage is answered with a
\* response whose next stage is pseudocode design and whose updates put
\* complexity analysis in skipped_stages.
C9_SkipTextSkipsComplexity ==
    /\ pc = "responded"
    /\ call.op = "submit_turn"
    /\ call.text = <<"s", "k", "i", "p">>
    /\ context.current_stage = "COMPLEXITY_ANALYSIS"
    => /\ response.kind = "ModuleResponse"
       /\ response.next_stage = "PSEUDOCODE_DESIGN"
       /\ "skipped_stages" \in DOMAIN response.context_updates
       /\ \E i \in DOMAIN response.context_updates.skipped_stages :
              response.context_updates.skipped_stages[i] = "COMPLEXITY_ANALYSIS"

\* The text is empty or all whitespace.
IsBlank(text) == \A i \in 1..Len(text) : text[i] \in Whitespace

\* The trimmed text equals a user message among the last 3 entries of a log of
\* at least 3 entries.
IsRepeat(text, log) ==
    /\ Len(log) >= 3
    /\ \E i \in (Len(log) - 2)..Len(log) :
           log[i].role = "user" /\ log[i].content = strip(text)

\* The text holds one of the off-topic keywords, in any case.
IsOffTopic(text) ==
    \E kw \in { <<"w", "e", "a", "t", "h", "e", "r">>, <<"l", "u", "n", "c", "h">>,
                <<"g", "a", "m", "e">>, <<"U+5929", "U+6C14">>,
                <<"U+5403", "U+996D">>, <<"U+6E38", "U+620F">> } :
        contains(kw, lower(text))

\* C10: the validator returns the first category that applies, in the order
\* empty, too_short (under 5 trimmed characters), repeated, off_topic, and the
\* input is valid, with no category, exactly when none applies.
C10_ValidatorPriority ==
    pc = "validated" =>
        /\ call.category =
               IF IsBlank(call.text) THEN "empty"
               ELSE IF Len(strip(call.text)) < 5 THEN "too_short"
               ELSE IF IsRepeat(call.text, context.conversation_history) THEN "repeated"
               ELSE IF IsOffTopic(call.text) THEN "off_topic"
               ELSE None
        /\ call.valid = (call.category = None)

\* C10 witness: a text that is too short, a repeat and off topic at once is
\* called too_short.
C10_Witness ==
    /\ pc = "validated"
    /\ ~IsBlank(call.text)
    /\ Len(strip(call.text)) < 5
    /\ IsRepeat(call.text, context.conversation_history)
    /\ IsOffTopic(call.text)
    /\ call.category = "too_short"
    /\ ~call.valid

\* The successor of each stage, as the claim names it.
ChainSuccessor(s) ==
    CASE s = "PROBLEM_CLARIFICATION" -> "THOUGHT_ARTICULATION"
      [] s = "THOUGHT_ARTICULATION"  -> "COMPLEXITY_ANALYSIS"
      [] s = "COMPLEXITY_ANALYSIS"   -> "PSEUDOCODE_DESIGN"
      [] s = "PSEUDOCODE_DESIGN"     -> "EDGE_CASE_CHECK"
      [] s = "EDGE_CASE_CHECK"       -> "FOLLOW_UP"
      [] s = "FOLLOW_UP"             -> "PATTERN_SUMMARY"

\* C11: the table is defined on all 7 stages; looked up for any stage but
\* pattern summary it gives one stage, the next of the chain clarification,
\* articulation, complexity, pseudocode, edge case, follow-up, summary, and
\* the same one at every lookup; for pattern summary it gives none.
C11_TableTotalAndChained ==
    /\ DOMAIN STAGE_TRANSITION_RULES = Stage
    /\ Cardinality(Stage) = 7
    /\ (pc = "looked_up" =>
            /\ response.current \in Stage
            /\ response.value =
                   IF response.current = "PATTERN_SUMMARY" THEN None
                   ELSE ChainSuccessor(response.current)
            /\ (response.current /= "PATTERN_SUMMARY" => response.value \in Stage))

\* C11 witness: the successor of the follow-up stage has been looked up, on a
\* session that has already moved.
C11_Witness ==
    /\ pc = "looked_up"
    /\ response.current = "FOLLOW_UP"
    /\ response.value = "PATTERN_SUMMARY"
    /\ turns /= <<>>

\* The call in progress was answered by the invalid-input handler, directly or
\* as the invalid route of a turn, at a counter that stays under 3.
InvalidAnsweredBelowHelp ==
    /\ pc = "responded"
    /\ "handle_invalid_input" \in call.ran
    /\ context.consecutive_invalid_inputs + 1 < 3

\* The canned message of each anomaly category, as the claim names it.
CannedNamed(category) ==
    CASE category = "too_short" -> "That's a bit brief! Could you elaborate a bit more?"
      [] category = "off_topic" -> "Hmm, that seems unrelated. Let me rephrase the question."
      [] category = "repeated"  ->
            "I notice you've said something similar before. Want to try a different angle?"
      [] OTHER -> "I didn't catch that. Could you share your thoughts?"

\* C12: an invalid input handled at a counter c with c + 1 < 3 is answered
\* with a success response that has no next stage, whose text is the canned
\* message of the category (the empty-input message for an unknown category)
\* and whose only update is the counter at c + 1; applied, the stage is the
\* same and the counter is c + 1.
C12_InvalidBelowHelp ==
    /\ [](InvalidAnsweredBelowHelp =>
            /\ response.kind = "ModuleResponse"
            /\ response.success
            /\ response.next_stage = None
            /\ response.assistant_message = CannedNamed(call.input_type)
            /\ DOMAIN response.context_updates = {"consecutive_invalid_inputs"}
            /\ response.context_updates.consecutive_invalid_inputs =
                   context.consecutive_invalid_inputs + 1)
    /\ [][InvalidAnsweredBelowHelp /\ pc' = "idle" =>
            /\ context'.current_stage = context.current_stage
            /\ context'.stage_history = context.stage_history
            /\ context'.consecutive_invalid_inputs =
                   context.consecutive_invalid_inputs + 1]_vars

\* C12 witness: the turn text "" at the clarification stage with counter 0 has
\* been answered with the empty-input message and counter 1.
C12_Witness ==
    /\ InvalidAnsweredBelowHelp
    /\ call.op = "submit_turn"
    /\ call.text = <<>>
    /\ call.category = "empty"
    /\ context.current_stage = "PROBLEM_CLARIFICATION"
    /\ context.consecutive_invalid_inputs = 0
    /\ response.assistant_message = "I didn't catch that. Could you share your thoughts?"
    /\ response.context_updates.consecutive_invalid_inputs = 1

\* C12 witness of the fallback: an unknown category has been answered at
\* counter 1.
C12_WitnessUnknown ==
    /\ InvalidAnsweredBelowHelp
    /\ call.input_type = "unknown"
    /\ context.consecutive_invalid_inputs = 1

GiveUpText ==
    <<"t", "h", "i", "s", " ", "i", "s", " ", "t", "o", "o", " ", "h", "a", "r", "d", ",", " ", "I", " ", "g", "i", "v", "e", " ", "u", "p">>

\* The turn in progress submitted the text "this is too hard, I give up".
GiveUpSubmitted ==
    pc = "responded" /\ call.op = "submit_turn" /\ call.text = GiveUpText

\* The three encouragement texts, each followed by the hint offer.
EncouragementsNamed ==
    { "I can tell this is challenging, and that's completely normal! Even experienced engineers struggle with these problems at first.\n\nLet me give you a helpful hint to get started.",
      "Let me help you break this down into smaller steps. We'll tackle it together.\n\nLet me give you a helpful hint to get started.",
      "How about we approach this differently? Sometimes a fresh angle makes all the difference.\n\nLet me give you a helpful hint to get started." }

\* The response is the frustration response: success, no next stage,
\* frustration_detected set, one of the encouragements with the hint offer.
IsFrustrationResponse ==
    /\ response.kind = "ModuleResponse"
    /\ response.success
    /\ response.next_stage = None
    /\ "frustration_detected" \in DOMAIN response.context_updates
    /\ response.context_updates.frustration_detected = TRUE
    /\ response.assistant_message \in EncouragementsNamed

\* C13 as stated: the turn text "this is too hard, I give up" is answered with
\* the frustration response at any stage and with any prior message log.
C13_Original == GiveUpSubmitted => IsFrustrationResponse

\* C13 amended: the turn text "this is too hard, I give up" is answered with
\* the frustration response at any stage and with any prior message log in
\* which it is not a user message among the last 3 of at least 3 entries; when
\* it is, the validator calls it repeated and the invalid-input handler answers.
C13_GiveUpEncouraged ==
    GiveUpSubmitted =>
        IF IsRepeat(GiveUpText, context.conversation_history)
        THEN /\ call.category = "repeated"
             /\ "handle_invalid_input" \in call.ran
             /\ "handle_frustration" \notin call.ran
        ELSE /\ IsFrustrationResponse
             /\ "handle_frustration" \in call.ran

\* C13 witness: the text has been answered with the frustration response on a
\* session that has a message log.
C13_Witness ==
    /\ GiveUpSubmitted
    /\ Len(context.conversation_history) = 3
    /\ ~IsRepeat(GiveUpText, context.conversation_history)
    /\ IsFrustrationResponse

\* The response carries what the envelope invariant asks of it.
EnvelopeHolds ==
    /\ response.success \in BOOLEAN
    /\ (response.success =>
            response.assistant_message /= None /\ response.assistant_message /= "")
    /\ (~response.success =>
            response.error_message /= None /\ response.error_message /= "")

\* The arguments of the constructor call in progress satisfy the envelope
\* invariant.
ArgsAllowed ==
    IF call.args.success
    THEN call.args.assistant_message /= None /\ call.args.assistant_message /= ""
    ELSE call.args.error_message /= None /\ call.args.error_message /= ""

\* C14: every response that exists, from whatever path (skip, invalid input,
\* help mode, frustration, fallback, the wrapper, a module, a direct
\* construction), has non-empty assistant text when it is a success and a
\* non-empty error message when it is a failure; a construction with arguments
\* that break this fails with ValueError and one with arguments that keep it
\* gives the response.
C14_EnvelopeInvariant ==
    /\ (response.kind = "ModuleResponse" => EnvelopeHolds)
    /\ (pc = "constructed" =>
            IF ArgsAllowed
            THEN /\ response.kind = "ModuleResponse"
                 /\ response.success = call.args.success
                 /\ response.assistant_message = call.args.assistant_message
                 /\ response.error_message = call.args.error_message
            ELSE /\ response.kind = "raised"
                 /\ response.exc = "ValueError")

\* C14 witness: a failure response with an empty error message was asked for,
\* with assistant text given, and the construction failed.
C14_Witness ==
    /\ pc = "constructed"
    /\ ~call.args.success
    /\ call.args.error_message = ""
    /\ call.args.assistant_message = "Go on."
    /\ response.kind = "raised"

\* C15: in every state of a session, whatever calls were made and applied,
\* stage_history is empty or its last element is not the current stage.
C15_HistoryHoldsPriorStages ==
    \/ context.stage_history = <<>>
    \/ context.stage_history[Len(context.stage_history)] /= context.current_stage

\* C15 witness: a response's next stage has been applied through
\* transition_to, so that stage_history holds the stage left.
C15_Witness ==
    /\ pc = "idle"
    /\ turns /= <<>>
    /\ context.stage_history = <<"PROBLEM_CLARIFICATION">>
    /\ context.current_stage = "THOUGHT_ARTICULATION"
    /\ context.stage_start_time > 0

\* The call in progress was answered by the invalid-input, the skip or the
\* frustration handler, directly or as a route of a turn.
AnomalyAnswered ==
    /\ pc = "responded"
    /\ call.ran \cap {"handle_invalid_input", "handle_skip_request", "handle_frustration"} /= {}

\* C16: the invalid-input handler (help mode included), the skip handler (at a
\* critical, a skippable or any other stage) and the frustration handler
\* always return a response, and its success is true, at every stage and
\* counter.
C16_AnomaliesRecovered ==
    AnomalyAnswered =>
        /\ response.kind = "ModuleResponse"
        /\ response.success = TRUE
        /\ response.error_message = None

\* C16 witness: the third invalid turn in a row has been answered in help
\* mode, with success.
C16_Witness ==
    /\ AnomalyAnswered
    /\ call.op = "submit_turn"
    /\ "handle_invalid_input" \in call.ran
    /\ context.consecutive_invalid_inputs = 2
    /\ "help_mode_triggered" \in DOMAIN response.context_updates
    /\ response.success

\* The text holds one of the skip keywords, in any case.
HasSkipKeyword(text) ==
    \E kw \in { <<"s", "k", "i", "p">>, <<"n", "e", "x", "t">>, <<"p", "a", "s", "s">>,
                <<"U+8DF3", "U+8FC7">>, <<"U+4E0B", "U+4E00", "U+4E2A">> } :
        contains(kw, lower(text))

\* The text holds one of the frustration keywords, in any case.
HasFrustrationKeyword(text) ==
    \E kw \in { <<"t", "o", "o", " ", "h", "a", "r", "d">>, <<"g", "i", "v", "e", " ", "u", "p">>,
                <<"d", "o", "n", "'", "t", " ", "k", "n", "o", "w">>, <<"c", "a", "n", "'", "t">>,
                <<"U+592A", "U+96BE">>, <<"U+653E", "U+5F03">>,
                <<"U+4E0D", "U+4F1A">>, <<"U+4E0D", "U+61C2">> } :
        contains(kw, lower(text))

\* A turn has been routed and answered.
TurnRouted == pc = "responded" /\ call.op = "submit_turn"

\* C17: in a turn, when the validator calls the text invalid only the
\* invalid-input handler runs and no detector and no module is consulted;
\* otherwise, when the text holds a skip keyword, only the skip handler runs,
\* a frustration keyword or not; otherwise, when it holds a frustration
\* keyword, only the frustration handler runs; otherwise the module is called
\* through the wrapper.
C17_OneRouteByPriority ==
    TurnRouted =>
        call.ran =
            IF ~call.valid
            THEN {"validate", "handle_invalid_input"}
            ELSE IF HasSkipKeyword(call.text)
            THEN {"validate", "detect_skip_request", "handle_skip_request"}
            ELSE IF HasFrustrationKeyword(call.text)
            THEN {"validate", "detect_skip_request", "detect_frustration",
                  "handle_frustration"}
            ELSE {"validate", "detect_skip_request", "detect_frustration",
                  "safe_module_call"}

\* C17 witness: a valid text with a skip keyword and a frustration keyword
\* has been answered by the skip handler.
C17_Witness ==
    /\ TurnRouted
    /\ call.valid
    /\ HasSkipKeyword(call.text)
    /\ HasFrustrationKeyword(call.text)
    /\ "handle_skip_request" \in call.ran
    /\ "handle_frustration" \notin call.ran

\* The successor of each stage in the table, as the claim names it: none for
\* pattern summary.
TableSuccessorNamed(s) == IF s = "PATTERN_SUMMARY" THEN None ELSE ChainSuccessor(s)

\* A response is held by the caller, to be applied or shown.
ResponseHeld == pc \in {"responded", "shown"} /\ response.kind = "ModuleResponse"

\* C18: every next stage a handler, the wrapper or a module suggests is the
\* table successor of the session's current stage, and every change of the
\* current stage moves it to its table successor: no move backward, no stage
\* jumped over, no target other than the table's.
C18_OnlyTheTableMoves ==
    /\ [](ResponseHeld /\ response.next_stage /= None =>
            response.next_stage = TableSuccessorNamed(context.current_stage))
    /\ [][context'.current_stage /= context.current_stage =>
            context'.current_stage = TableSuccessorNamed(context.current_stage)]_vars

\* The generation-failure handler has been called directly and has returned.
LlmFailureHandled == pc = "responded" /\ call.op = "handle_llm_failure"

\* The fallback template of each stage, as the claim names it.
FallbackNamed(stage) ==
    CASE stage = "PROBLEM_CLARIFICATION" ->
            "Let's make sure we understand the problem. What are the inputs and expected outputs?"
      [] stage = "THOUGHT_ARTICULATION" ->
            "Let's think about this step by step. What would be the simplest approach to solve this, even if not optimal?"
      [] stage = "COMPLEXITY_ANALYSIS" ->
            "Can you analyze the time and space complexity of your approach?"
      [] stage = "PSEUDOCODE_DESIGN" ->
            "Now let's write out the pseudocode or main logic structure."
      [] stage = "EDGE_CASE_CHECK" ->
            "What edge cases should we consider? Think about empty inputs, extreme values, etc."
      [] stage = "FOLLOW_UP" ->
            "Great work! Now let's think about: could we optimize this further?"
      [] stage = "PATTERN_SUMMARY" ->
            "Let's summarize: what pattern did we use here, and when would you use it again?"

\* C19: the generation-failure handler, called with retry counter r and
\* maximum m, waits 2^r once and returns None when r < m; when r >= m it does
\* not wait and returns a success response with the fallback template of the
\* current stage (one of 7, one per stage), fallback_used set as its only
\* update and no next stage.
C19_BackoffOrFallback ==
    LlmFailureHandled =>
        IF call.retry_count < call.max_retries
        THEN /\ response.kind = "None"
             /\ call.slept = <<2 ^ call.retry_count>>
        ELSE /\ call.slept = <<>>
             /\ response.kind = "ModuleResponse"
             /\ response.success
             /\ response.assistant_message = FallbackNamed(context.current_stage)
             /\ response.next_stage = None
             /\ DOMAIN response.context_updates = {"fallback_used"}
             /\ response.context_updates.fallback_used = TRUE

\* C19 witness: with r = m = 3 the handler has returned the fallback of the
\* edge-case stage.
C19_Witness ==
    /\ LlmFailureHandled
    /\ call.retry_count = 3
    /\ call.max_retries = 3
    /\ context.current_stage = "EDGE_CASE_CHECK"
    /\ response.kind = "ModuleResponse"
    /\ "fallback_used" \in DOMAIN response.context_updates

\* C19 witness of the retry: with r = 2 and m = 3 the handler has waited 4 and
\* returned None.
C19_WitnessRetry ==
    /\ LlmFailureHandled
    /\ call.retry_count = 2
    /\ call.max_retries = 3
    /\ call.slept = <<4>>
    /\ response.kind = "None"

\* A call of the validator, a detector, a handler or the wrapper is made:
\* the step from the caller to the point where the call has returned.
CallStep ==
    /\ pc = "idle"
    /\ pc' \in {"responded", "shown", "detected", "looked_up", "validated"}

\* The orchestrator applies a response.
ApplyStep == pc = "responded" /\ pc' = "idle"

\* C20: a call of the validator, of a detector, of a handler (skip, invalid
\* input, help mode, frustration, generation failure) or of the wrapper leaves
\* the session as it was, the skip handler's new skipped_stages being a value
\* in the response; the session changes only in the step in which the
\* orchestrator applies a response.
C20_SessionChangedOnlyByApply ==
    /\ [][CallStep => context' = context]_vars
    /\ [][context' /= context => ApplyStep]_vars
    /\ [](SkipAnswered /\ context.current_stage \in SkippableNamed =>
            /\ "skipped_stages" \in DOMAIN response.context_updates
            /\ response.context_updates.skipped_stages /= context.skipped_stages
            /\ response.context_updates.skipped_stages =
                   context.skipped_stages \o <<context.current_stage>>)

\* C20 witness: the turn text "Can we skip this part?" has been answered by
\* the skip handler at complexity analysis, the stage in the response's
\* skipped_stages and not in the session's.
C20_Witness ==
    /\ SkipAnswered
    /\ call.op = "submit_turn"
    /\ {"validate", "detect_skip_request"} \subseteq call.ran
    /\ context.current_stage = "COMPLEXITY_ANALYSIS"
    /\ context.skipped_stages = <<>>
    /\ response.context_updates.skipped_stages = <<"COMPLEXITY_ANALYSIS">>

\* The session fields a transition writes.
TransitionFields == {"stage_history", "current_stage", "stage_start_time"}

\* The orchestrator applies a response that suggests a next stage.
TransitionStep ==
    /\ pc = "responded"
    /\ pc' = "idle"
    /\ response.success
    /\ response.next_stage /= None

RECURSIVE WithoutStutter(_)
\* A sequence of stages without the immediate repetitions.
WithoutStutter(stages) ==
    IF Len(stages) <= 1 THEN stages
    ELSE LET rest == WithoutStutter(Tail(stages))
         IN  IF Head(stages) = Head(rest) THEN rest ELSE <<Head(stages)>> \o rest

\* The stages the session has been in, in order: the stage of every applied
\* call, then the current one.
StagesBeenIn ==
    WithoutStutter([i \in 1..(Len(turns) + 1) |->
                       IF i <= Len(turns) THEN turns[i].stage ELSE context.current_stage])

HelpModeAnswered ==
    /\ pc = "responded"
    /\ response.kind = "ModuleResponse"
    /\ "help_mode_triggered" \in DOMAIN response.context_updates

\* The applied calls that came just before the call in progress: the last two,
\* or the only one.
TwoMostRecent == {i \in 1..Len(turns) : i >= Len(turns) - 1}

\* C22: the help-mode response is returned only to an invalid input whose
\* preceding turns, the two most recent ones, were invalid inputs as well: a
\* turn answered by the skip handler, the frustration handler or a module
\* among them restarts the count.
C22_HelpOnlyAfterConsecutiveInvalid ==
    HelpModeAnswered =>
        /\ "handle_invalid_input" \in call.ran
        /\ \A i \in TwoMostRecent : InvalidTurn(i)

\* The text is a user message among the last 3 entries of a log of at least 3
\* entries.
IsRecentUserMessage(text, log) ==
    /\ Len(log) >= 3
    /\ \E i \in (Len(log) - 2)..Len(log) : log[i].role = "user" /\ log[i].content = text

\* C23: a text of 5 or more trimmed characters that is a user message among
\* the last 3 entries of a log of at least 3 entries is called repeated; and a
\* text is called repeated only when the log has at least 3 entries and the
\* text, as typed or trimmed, is a user message among the last 3: never for an
\* assistant message alone, an older user message alone, or a shorter log.
C23_RepeatedWindow ==
    pc = "validated" =>
        /\ (/\ Len(strip(call.text)) >= 5
            /\ IsRecentUserMessage(call.text, context.conversation_history)
            => call.category = "repeated")
        /\ (call.category = "repeated" =>
                /\ Len(context.conversation_history) >= 3
                /\ \/ IsRecentUserMessage(call.text, context.conversation_history)
                   \/ IsRecentUserMessage(strip(call.text), context.conversation_history))

\* The stages outside the critical and the skippable set, as the claim names
\* them.
NeitherNamed == {"PROBLEM_CLARIFICATION", "FOLLOW_UP"}

\* C24: every stage in the session's skipped_stages, and in the skipped_stages
\* a response carries, is complexity analysis or pattern summary; a skip
\* request at clarification or follow-up is refused with a success response
\* that has no next stage and no update, and applying it changes nothing.
C24_OnlySkippableSkipped ==
    /\ [](\A i \in DOMAIN context.skipped_stages :
              context.skipped_stages[i] \in SkippableNamed)
    /\ [](SkipAnswered /\ context.current_stage \in NeitherNamed =>
            /\ response.kind = "ModuleResponse"
            /\ response.success
            /\ response.next_stage = None
            /\ DOMAIN response.context_updates = {}
            /\ response.assistant_message = "Let's complete this part first before moving on.")
    /\ [][SkipAnswered /\ context.current_stage \in NeitherNamed => context' = context]_vars

\* C24 witness: a second skip request in a row has been refused at the
\* follow-up stage, nothing skipped.
C24_Witness ==
    /\ SkipAnswered
    /\ context.current_stage = "FOLLOW_UP"
    /\ turns /= <<>>
    /\ LastTurn.handler = "handle_skip_request"
    /\ LastTurn.stage = "FOLLOW_UP"
    /\ context.skipped_stages = <<>>
    /\ DOMAIN response.context_updates = {}

\* C25: in every state of a session, whatever skip requests were applied, no
\* stage is in skipped_stages more than once.
C25_SkippedStagesIsASet ==
    \A i, j \in DOMAIN context.skipped_stages :
        context.skipped_stages[i] = context.skipped_stages[j] => i = j

\* The orchestrator applies a response of the invalid-input handler.
InvalidApplied ==
    /\ pc = "responded"
    /\ pc' = "idle"
    /\ "handle_invalid_input" \in call.ran

\* C26: the session's consecutive-invalid counter is 0, 1 or 2 in every state,
\* no response carries another value for it, each applied invalid input moves
\* it 0 -> 1 -> 2 -> 0, and no other step changes it.
C26_CounterStaysBelowThree ==
    /\ [](context.consecutive_invalid_inputs \in {0, 1, 2})
    /\ [](pc = "responded" /\ response.kind = "ModuleResponse"
            /\ "consecutive_invalid_inputs" \in DOMAIN response.context_updates
            => response.context_updates.consecutive_invalid_inputs \in {0, 1, 2})
    /\ [][InvalidApplied =>
            context'.consecutive_invalid_inputs =
                IF context.consecutive_invalid_inputs = 2 THEN 0
                ELSE context.consecutive_invalid_inputs + 1]_vars
    /\ [][~InvalidApplied =>
            context'.consecutive_invalid_inputs = context.consecutive_invalid_inputs]_vars

\* C26 witness: three invalid inputs have been applied to a session, called at
\* counters 0, 1 and 2, and the counter is back at 0.
C26_Witness ==
    /\ pc = "idle"
    /\ Len(turns) = 3
    /\ \A i \in 1..3 : InvalidTurn(i) /\ turns[i].counter = i - 1
    /\ context.consecutive_invalid_inputs = 0

\* The wrapper has returned a failure response.
WrapperFailed ==
    /\ WrapperAnswered
    /\ response.kind = "ModuleResponse"
    /\ ~response.success

\* The module of the call in progress did not itself return the response: its
\* precondition was false or raised, or its process raised or returned no
\* envelope.
FailureMadeByWrapper ==
    /\ WrapperFailed
    /\ call.module.class = "Stub" =>
           call.module.validate /= "true" \/ call.module.process /= "failure"

\* C27: a failure response returned by the wrapper has success false, no next
\* stage, no update and a non-empty error message, with severity error or
\* critical when the wrapper made it; applying it leaves the whole session,
\* stage, stage history, counters, flags and skipped_stages, as it was.
C27_FailureLeavesSession ==
    /\ [](WrapperFailed =>
            /\ response.success = FALSE
            /\ response.next_stage = None
            /\ DOMAIN response.context_updates = {}
            /\ response.error_message /= None
            /\ response.error_message /= "")
    /\ [](FailureMadeByWrapper => response.exception_level \in {"ERROR", "CRITICAL"})
    /\ [][WrapperFailed => context' = context]_vars

\* C27 witness: on a session that has counted an invalid input, the wrapper
\* has turned an unexpected fault of the module into a critical failure
\* response.
C27_Witness ==
    /\ FailureMadeByWrapper
    /\ call.module.process = "raise_other"
    /\ response.exception_level = "CRITICAL"
    /\ turns /= <<>>
    /\ context.consecutive_invalid_inputs = 1


====
